---- MODULE Spec2Model ----
(***************************************************************************)
(* Model of glances/outputs/glances_colors.py: the GlancesColors theme     *)
(* manager (palette construction, style table, light/dark switch).         *)
(*                                                                         *)
(* State: the class attributes of GlancesColors (forground, foreground,    *)
(* background, mode: they are set through self.__class__ and so shared by  *)
(* every instance), the attributes of each instance, and the curses        *)
(* library's state as far as the code drives it (colour pairs, colour 11,  *)
(* the surface).  The terminal is an input: whether it has colours, how    *)
(* many, and which of the calls that the code guards with try/except it    *)
(* rejects.  A call outside any try block is taken to succeed.             *)
(***************************************************************************)
EXTENDS Integers, Sequences, FiniteSets, TLC

\* Number of GlancesColors instances the process may construct.
NumInstances == 2

Instances == 1..NumInstances

\* ---- curses constants used by the code ---------------------------------
COLOR_BLACK   == 0
COLOR_RED     == 1
COLOR_GREEN   == 2
COLOR_YELLOW  == 3
COLOR_BLUE    == 4
COLOR_MAGENTA == 5
COLOR_CYAN    == 6
COLOR_WHITE   == 7

\* -1 as a colour: "use the terminal's default colour".
TERM_DEFAULT == -1

A_UNDERLINE == 131072
A_REVERSE   == 262144
A_BOLD      == 2097152
A_PROTECT   == 16777216

\* An attribute Python has not set yet.
Absent == -2
NoPair == << >>

\* ---- Python integer operations -----------------------------------------
\* Bitwise or of two non-negative integers, a byte at a time where both low
\* bytes are empty and a bit at a time otherwise.
RECURSIVE BitOr(_, _)
BitOr(a, b) ==
    IF a = 0 THEN b
    ELSE IF b = 0 THEN a
    ELSE IF a % 256 = 0 /\ b % 256 = 0
         THEN 256 * BitOr(a \div 256, b \div 256)
         ELSE (IF a % 2 = 1 \/ b % 2 = 1 THEN 1 ELSE 0)
                  + 2 * BitOr(a \div 2, b \div 2)

\* Python's x | y on the values the code produces: non-negative integers and
\* -1 (all bits set), for which x | -1 = -1.
PyOr(a, b) == IF a = -1 \/ b = -1 THEN -1 ELSE BitOr(a, b)

\* curses.color_pair(n)
color_pair(n) == n * 256

\* The colour-pair number an attribute word carries, curses.pair_number:
\* bits 8 to 15 of the word; -1 has every bit set.
pair_number(attr) == IF attr = -1 THEN 255 ELSE (attr \div 256) % 256

\* ---- the terminal and the caller's arguments ---------------------------
ColorCounts == {8, 256}
ProbeSteps  == <<"start_color", "use_default_colors", "assume_default_colors">>
ProbeFails  == {"none", "start_color", "use_default_colors", "assume_default_colors"}
Modes       == {"light", "dark"}

VARIABLES
    env,      \* the terminal: has_colors, COLORS, the calls it rejects
    args,     \* the args object the caller hands to every constructor
    cls,      \* class attributes of GlancesColors
    objs,     \* instance attributes, per instance
    curses,   \* state of the curses library
    raised,   \* the last call let an exception reach its caller
    ret,      \* value returned by the last call
    calls,    \* the curses calls the last call made, in order
    lastOp,   \* the last call: its name and instance
    hist      \* what was observable before each of the latest consecutive
              \* switchLDmode calls on one instance (the last two)

vars == <<env, args, cls, objs, curses, raised, ret, calls, lastOp, hist>>

\* An object before __init__ ran on it: no attribute is set.
NoObj ==
    [alive |-> FALSE, args |-> [none |-> TRUE], A_BOLD |-> Absent,
     DEFAULT |-> Absent, OK_LOG |-> Absent, NICE |-> Absent, CPU_TIME |-> Absent,
     CAREFUL_LOG |-> Absent, WARNING_LOG |-> Absent, CRITICAL_LOG |-> Absent,
     OK |-> Absent, CAREFUL |-> Absent, WARNING |-> Absent, CRITICAL |-> Absent,
     INFO |-> Absent, FILTER |-> Absent, SELECTED |-> Absent, SEPARATOR |-> Absent]

NoCls == [forground |-> Absent, foreground |-> Absent, background |-> Absent,
          mode |-> "unset"]

NoSurface == [bkgd |-> Absent, bkgdPair |-> NoPair, cleared |-> FALSE,
              refreshed |-> FALSE]

NoCurses ==
    [pairs |-> [n \in 0..11 |-> NoPair], color11 |-> NoPair,
     started |-> FALSE, useDefault |-> FALSE,
     surface |-> NoSurface]

\* ---- curses calls ------------------------------------------------------
\* A running computation is a record st = [cls, objs, curses, log, exc]; log
\* lists the curses calls made so far, exc is TRUE while an exception is
\* propagating, and every statement is skipped then.

Log(st, name) == [st EXCEPT !.log = Append(@, name)]

\* The terminal rejects a pair whose foreground it cannot show, and pair 11
\* when it cannot define it.
InitPairRejected(n, fg) == fg \in env.rejected \/ (n = 11 /\ env.pair11Fail)

\* curses.init_pair(n, fg, bg)
init_pair(st, n, fg, bg) ==
    IF st.exc THEN st
    ELSE IF InitPairRejected(n, fg)
         THEN [Log(st, "init_pair") EXCEPT !.exc = TRUE]
         ELSE [Log(st, "init_pair") EXCEPT !.curses.pairs[n] = <<fg, bg>>]

\* curses.init_color(11, r, g, b)
init_color(st, r, g, b) ==
    IF st.exc THEN st
    ELSE IF env.initColorFail
         THEN [Log(st, "init_color") EXCEPT !.exc = TRUE]
         ELSE [Log(st, "init_color") EXCEPT !.curses.color11 = <<r, g, b>>]

\* One step of the capability probe.
ProbeStep(st, name) ==
    IF st.exc THEN st
    ELSE IF env.probeFail = name
         THEN [Log(st, name) EXCEPT !.exc = TRUE]
         ELSE CASE name = "start_color" ->
                     [Log(st, name) EXCEPT !.curses.started = TRUE]
                [] name = "use_default_colors" ->
                     [Log(st, name) EXCEPT !.curses.useDefault = TRUE]
                [] name = "assume_default_colors" ->
                     [Log(st, name) EXCEPT
                        !.curses.pairs[0] = <<st.cls.forground, st.cls.background>>]

\* stdscr.bkgd(' ', attr): the surface takes the pair as it is defined now.
bkgd(st, attr) ==
    IF st.exc THEN st
    ELSE [Log(st, "bkgd") EXCEPT
            !.curses.surface.bkgd = attr,
            !.curses.surface.bkgdPair = st.curses.pairs[pair_number(attr)],
            !.curses.surface.cleared = FALSE,
            !.curses.surface.refreshed = FALSE]

\* stdscr.clear()
clear(st) ==
    IF st.exc THEN st
    ELSE [Log(st, "clear") EXCEPT !.curses.surface.cleared = TRUE,
                                  !.curses.surface.refreshed = FALSE]

\* stdscr.refresh()
refresh(st) ==
    IF st.exc THEN st
    ELSE [Log(st, "refresh") EXCEPT !.curses.surface.refreshed = TRUE]

\* try: <body> except Exception: the exception stops here.
Caught(st) == [st EXCEPT !.exc = FALSE]

\* ---- GlancesColors -----------------------------------------------------
\* self.<name> = value for each name of the record vals.
SetAttrs(st, i, vals) ==
    IF st.exc THEN st
    ELSE [st EXCEPT !.objs[i] =
            [a \in DOMAIN @ |-> IF a \in DOMAIN vals THEN vals[a] ELSE @[a]]]

\* define_base_pairs with the test of disable_bg inverted.
define_base_pairs_inverted(st, i) ==
    LET self_args == st.objs[i].args
        fg == st.cls.forground
        bg == st.cls.background
        p1 == init_pair(st, 1, fg, bg)
        p5 == IF ~self_args.disable_bg
              THEN init_pair(init_pair(init_pair(p1,
                       2, COLOR_RED, bg),
                       3, COLOR_GREEN, bg),
                       5, COLOR_MAGENTA, bg)
              ELSE init_pair(init_pair(init_pair(p1,
                       2, fg, COLOR_RED),
                       3, COLOR_BLACK, COLOR_GREEN),
                       5, fg, COLOR_MAGENTA)
    IN  init_pair(init_pair(init_pair(init_pair(p5,
            4, COLOR_BLUE, bg),
            6, COLOR_RED, bg),
            7, COLOR_GREEN, bg),
            8, COLOR_MAGENTA, bg)

\* define_base_pairs with pair 4 made a background badge too when
\* disable_bg is off.
define_base_pairs_pair4(st, i) ==
    LET self_args == st.objs[i].args
        fg == st.cls.forground
        bg == st.cls.background
        p1 == init_pair(st, 1, fg, bg)
        p5 == IF self_args.disable_bg
              THEN init_pair(init_pair(init_pair(init_pair(p1,
                       2, COLOR_RED, bg),
                       3, COLOR_GREEN, bg),
                       5, COLOR_MAGENTA, bg),
                       4, COLOR_BLUE, bg)
              ELSE init_pair(init_pair(init_pair(init_pair(p1,
                       2, fg, COLOR_RED),
                       3, COLOR_BLACK, COLOR_GREEN),
                       5, fg, COLOR_MAGENTA),
                       4, fg, COLOR_BLUE)
    IN  init_pair(init_pair(init_pair(p5,
            6, COLOR_RED, bg),
            7, COLOR_GREEN, bg),
            8, COLOR_MAGENTA, bg)

\* define_base_pairs reading the class attribute foreground, which only
\* switchLDmode sets, for pair 1.
define_base_pairs_foreground(st, i) ==
    LET self_args == st.objs[i].args
        fg == st.cls.forground
        bg == st.cls.background
        p1 == init_pair(st, 1, st.cls.foreground, bg)
        p5 == IF self_args.disable_bg
              THEN init_pair(init_pair(init_pair(p1,
                       2, COLOR_RED, bg),
                       3, COLOR_GREEN, bg),
                       5, COLOR_MAGENTA, bg)
              ELSE init_pair(init_pair(init_pair(p1,
                       2, fg, COLOR_RED),
                       3, COLOR_BLACK, COLOR_GREEN),
                       5, fg, COLOR_MAGENTA)
    IN  init_pair(init_pair(init_pair(init_pair(p5,
            4, COLOR_BLUE, bg),
            6, COLOR_RED, bg),
            7, COLOR_GREEN, bg),
            8, COLOR_MAGENTA, bg)

\* __define_colors, pairs 1 to 8.
define_base_pairs(st, i) ==
    LET self_args == st.objs[i].args
        fg == st.cls.forground
        bg == st.cls.background
        p1 == init_pair(st, 1, fg, bg)
        p5 == IF self_args.disable_bg
              THEN init_pair(init_pair(init_pair(p1,
                       2, COLOR_RED, bg),
                       3, COLOR_GREEN, bg),
                       5, COLOR_MAGENTA, bg)
              ELSE init_pair(init_pair(init_pair(p1,
                       2, fg, COLOR_RED),
                       3, COLOR_BLACK, COLOR_GREEN),
                       5, fg, COLOR_MAGENTA)
    IN  init_pair(init_pair(init_pair(init_pair(p5,
            4, COLOR_BLUE, bg),
            6, COLOR_RED, bg),
            7, COLOR_GREEN, bg),
            8, COLOR_MAGENTA, bg)

\* __define_colors, "Colors text styles".
color_styles(st, i) ==
    LET bold == st.objs[i].A_BOLD
    IN  SetAttrs(st, i,
          [DEFAULT      |-> color_pair(1),
           OK_LOG       |-> PyOr(color_pair(3), bold),
           NICE         |-> color_pair(8),
           CPU_TIME     |-> color_pair(8),
           CAREFUL_LOG  |-> PyOr(color_pair(4), bold),
           WARNING_LOG  |-> PyOr(color_pair(5), bold),
           CRITICAL_LOG |-> PyOr(color_pair(2), bold),
           OK           |-> color_pair(7),
           CAREFUL      |-> color_pair(4),
           WARNING      |-> PyOr(color_pair(8), bold),
           CRITICAL     |-> PyOr(color_pair(6), bold),
           INFO         |-> color_pair(4),
           FILTER       |-> bold,
           SELECTED     |-> bold,
           SEPARATOR    |-> color_pair(1)])

\* define_extended with a handler that only swallows the exception.
define_extended_pass(st, i) ==
    IF st.exc THEN st
    ELSE LET bg == st.cls.background
             bold == st.objs[i].A_BOLD
             try == init_pair(init_pair(st, 9, COLOR_CYAN, bg),
                                            10, COLOR_YELLOW, bg)
             done == IF try.exc THEN Caught(try) ELSE try
         IN  SetAttrs(done, i,
               [FILTER   |-> PyOr(color_pair(9), bold),
                SELECTED |-> PyOr(color_pair(10), bold)])

\* __define_colors, pairs 9 and 10 with their fallback, FILTER and SELECTED.
define_extended(st, i) ==
    IF st.exc THEN st
    ELSE LET fg == st.cls.forground
             bg == st.cls.background
             bold == st.objs[i].A_BOLD
             try == init_pair(init_pair(st, 9, COLOR_CYAN, bg),
                                            10, COLOR_YELLOW, bg)
             done == IF try.exc
                     THEN init_pair(init_pair(Caught(try), 9, fg, bg), 10, fg, bg)
                     ELSE try
         IN  SetAttrs(done, i,
               [FILTER   |-> PyOr(color_pair(9), bold),
                SELECTED |-> PyOr(color_pair(10), bold)])

\* define_separator with SEPARATOR assigned before the two curses calls.
define_separator_early(st, i) ==
    IF st.exc THEN st
    ELSE LET fg == st.cls.forground
             bg == st.cls.background
             try == init_pair(init_color(
                        SetAttrs(st, i, [SEPARATOR |-> color_pair(11)]),
                        500, 500, 500), 11, fg, bg)
         IN  IF try.exc THEN Caught(try) ELSE try

\* __define_colors, "Define separator line style".
define_separator(st, i) ==
    IF st.exc THEN st
    ELSE LET fg == st.cls.forground
             bg == st.cls.background
             try == SetAttrs(init_pair(init_color(st, 500, 500, 500), 11, fg, bg),
                             i, [SEPARATOR |-> color_pair(11)])
         IN  IF try.exc THEN Caught(try) ELSE try

\* __define_colors taking 8 colours for an extended palette.
__define_colors_ge8(st, i) ==
    LET base == color_styles(define_base_pairs(st, i), i)
    IN  IF env.COLORS >= 8
        THEN define_separator(define_extended(base, i), i)
        ELSE base

__define_colors(st, i) ==
    LET base == color_styles(define_base_pairs(st, i), i)
    IN  IF env.COLORS > 8
        THEN define_separator(define_extended(base, i), i)
        ELSE base

__define_bw(st, i) ==
    LET bg == st.cls.background
        bold == st.objs[i].A_BOLD
    IN  SetAttrs(st, i,
          [DEFAULT      |-> bg,
           OK_LOG       |-> bg,
           NICE         |-> bold,
           CPU_TIME     |-> bold,
           CAREFUL_LOG  |-> bold,
           WARNING_LOG  |-> A_UNDERLINE,
           CRITICAL_LOG |-> A_REVERSE,
           OK           |-> bg,
           CAREFUL      |-> bold,
           WARNING      |-> A_UNDERLINE,
           CRITICAL     |-> A_REVERSE,
           INFO         |-> bold,
           FILTER       |-> bold,
           SELECTED     |-> bold,
           SEPARATOR    |-> bg])

\* get() without its 'ERROR' entry.
get_no_error(st, i) ==
    LET self == st.objs[i]
    IN  [DEFAULT          |-> self.DEFAULT,
         UNDERLINE        |-> A_UNDERLINE,
         BOLD             |-> self.A_BOLD,
         SORT             |-> PyOr(A_UNDERLINE, self.A_BOLD),
         OK               |-> self.OK,
         MAX              |-> PyOr(self.OK, self.A_BOLD),
         FILTER           |-> self.FILTER,
         TITLE            |-> self.A_BOLD,
         PROCESS          |-> self.OK,
         PROCESS_SELECTED |-> PyOr(self.OK, A_UNDERLINE),
         STATUS           |-> self.OK,
         NICE             |-> self.NICE,
         CPU_TIME         |-> self.CPU_TIME,
         CAREFUL          |-> self.CAREFUL,
         WARNING          |-> self.WARNING,
         CRITICAL         |-> self.CRITICAL,
         OK_LOG           |-> self.OK_LOG,
         CAREFUL_LOG      |-> self.CAREFUL_LOG,
         WARNING_LOG      |-> self.WARNING_LOG,
         CRITICAL_LOG     |-> self.CRITICAL_LOG,
         PASSWORD         |-> A_PROTECT,
         SELECTED         |-> self.SELECTED,
         INFO             |-> self.INFO,
         SEPARATOR        |-> self.SEPARATOR]

\* The dict that get() returns.
get(st, i) ==
    LET self == st.objs[i]
    IN  [DEFAULT          |-> self.DEFAULT,
         UNDERLINE        |-> A_UNDERLINE,
         BOLD             |-> self.A_BOLD,
         SORT             |-> PyOr(A_UNDERLINE, self.A_BOLD),
         OK               |-> self.OK,
         MAX              |-> PyOr(self.OK, self.A_BOLD),
         FILTER           |-> self.FILTER,
         TITLE            |-> self.A_BOLD,
         PROCESS          |-> self.OK,
         PROCESS_SELECTED |-> PyOr(self.OK, A_UNDERLINE),
         STATUS           |-> self.OK,
         NICE             |-> self.NICE,
         CPU_TIME         |-> self.CPU_TIME,
         CAREFUL          |-> self.CAREFUL,
         WARNING          |-> self.WARNING,
         CRITICAL         |-> self.CRITICAL,
         OK_LOG           |-> self.OK_LOG,
         CAREFUL_LOG      |-> self.CAREFUL_LOG,
         WARNING_LOG      |-> self.WARNING_LOG,
         CRITICAL_LOG     |-> self.CRITICAL_LOG,
         PASSWORD         |-> A_PROTECT,
         SELECTED         |-> self.SELECTED,
         INFO             |-> self.INFO,
         ERROR            |-> self.SELECTED,
         SEPARATOR        |-> self.SEPARATOR]

\* The three probe steps without the try block.
probe_uncaught(st) ==
    IF st.exc THEN st
    ELSE ProbeStep(ProbeStep(ProbeStep(st,
             ProbeSteps[1]), ProbeSteps[2]), ProbeSteps[3])

\* "Set defaults curses colors": the three probe steps in one try block.
probe(st) ==
    IF st.exc THEN st
    ELSE LET try == ProbeStep(ProbeStep(ProbeStep(st,
                        ProbeSteps[1]), ProbeSteps[2]), ProbeSteps[3])
         IN  IF try.exc THEN Caught(try) ELSE try

\* self.args = args, and "Define home made bold".
home_made_bold(st, i, a) ==
    SetAttrs([st EXCEPT !.objs[i].alive = TRUE], i,
             [args |-> a, A_BOLD |-> IF a.disable_bold THEN 0 ELSE A_BOLD])

\* if curses.has_colors(): ... else: ...
define_styles(st, i) ==
    IF st.exc THEN st
    ELSE IF env.has_colors THEN __define_colors(st, i) ELSE __define_bw(st, i)

\* __init__ taking the initial mode and baseline from its argument.
__init__from_args(st, i, a) ==
    IF st.exc THEN st
    ELSE LET c == IF a.mode = "light"
                  THEN [st EXCEPT !.cls.forground = TERM_DEFAULT,
                                  !.cls.background = TERM_DEFAULT,
                                  !.cls.mode = "light"]
                  ELSE [st EXCEPT !.cls.forground = COLOR_BLACK,
                                  !.cls.background = COLOR_WHITE,
                                  !.cls.mode = "dark"]
         IN  define_styles(probe(home_made_bold(c, i, a)), i)

__init__(st, i, a) ==
    IF st.exc THEN st
    ELSE LET c == [st EXCEPT !.cls.forground = TERM_DEFAULT,
                             !.cls.background = TERM_DEFAULT,
                             !.cls.mode = "light"]
         IN  define_styles(probe(home_made_bold(c, i, a)), i)

__white_init__(st, i, a) ==
    IF st.exc THEN st
    ELSE LET c == [st EXCEPT !.cls.forground = COLOR_BLACK,
                             !.cls.background = COLOR_WHITE,
                             !.cls.mode = "dark"]
         IN  define_styles(probe(home_made_bold(c, i, a)), i)

light_mode(st, i) ==
    LET p == init_pair(st, 1, st.cls.foreground, st.cls.background)
    IN  __white_init__(refresh(clear(bkgd(p, color_pair(1)))), i, st.objs[i].args)

\* dark_mode without its closing self.__init__(self.args).
dark_mode_no_init(st, i) ==
    LET p == init_pair(st, 1, st.cls.forground, st.cls.background)
    IN  clear(bkgd(p, color_pair(1)))

dark_mode(st, i) ==
    LET p == init_pair(st, 1, st.cls.forground, st.cls.background)
    IN  __init__(clear(bkgd(p, color_pair(1))), i, st.objs[i].args)

\* switchLDmode up to its return statement.
switchLDmode(st, i) ==
    IF st.cls.mode = "dark"
    THEN LET c == [st EXCEPT !.cls.foreground = TERM_DEFAULT,
                             !.cls.background = TERM_DEFAULT]
         IN  dark_mode(Log(__define_bw(c, i), "wrapper"), i)
    ELSE LET c == [st EXCEPT !.cls.foreground = COLOR_BLACK,
                             !.cls.background = COLOR_WHITE]
         IN  light_mode(Log(__define_bw(c, i), "wrapper"), i)

\* ---- the state machine -------------------------------------------------
NoRet == [none |-> TRUE]

\* The terminals.  Pairs 9 to 11 and colour 11 are only asked of a colour
\* terminal with more than 8 colours: what another terminal would answer
\* changes nothing and is left out.
Envs ==
    {e \in [has_colors : BOOLEAN, COLORS : ColorCounts, probeFail : ProbeFails,
            rejected : SUBSET {COLOR_CYAN, COLOR_YELLOW},
            initColorFail : BOOLEAN, pair11Fail : BOOLEAN] :
        (~e.has_colors \/ e.COLORS <= 8) =>
            (e.rejected = {} /\ ~e.initColorFail /\ ~e.pair11Fail)}

\* args carries the command line's flags; mode stands for an initial mode
\* the caller would like, which no line of the class reads.
Args == [disable_bold : BOOLEAN, disable_bg : BOOLEAN, mode : Modes]

\* The module is imported, no GlancesColors exists yet.
Init ==
    /\ env \in Envs
    /\ args \in Args
    /\ cls = NoCls
    /\ objs = [i \in Instances |-> NoObj]
    /\ curses = NoCurses
    /\ raised = FALSE
    /\ ret = NoRet
    /\ calls = << >>
    /\ lastOp = [op |-> "import", inst |-> 0]
    /\ hist = << >>

Cur == [cls |-> cls, objs |-> objs, curses |-> curses, log |-> << >>, exc |-> FALSE]

Commit(r) ==
    /\ cls' = r.cls
    /\ objs' = r.objs
    /\ curses' = r.curses
    /\ calls' = r.log
    /\ raised' = r.exc

\* What a caller can observe of instance i's theme.
Observed(i) ==
    [inst |-> i, mode |-> cls.mode, fg |-> cls.forground, bg |-> cls.background,
     table |-> get(Cur, i)]

\* GlancesColors(args): instances are created one after the other.
Construct(i) ==
    /\ ~raised
    /\ ~objs[i].alive
    /\ \A j \in Instances : j < i => objs[j].alive
    /\ Commit(__init__(Cur, i, args))
    /\ ret' = NoRet
    /\ lastOp' = [op |-> "__init__", inst |-> i]
    /\ hist' = << >>
    /\ UNCHANGED <<env, args>>

\* self.switchLDmode() on instance i.
Switch(i) ==
    /\ ~raised
    /\ objs[i].alive
    /\ LET r == switchLDmode(Cur, i)
       IN  /\ Commit(r)
           /\ ret' = IF r.exc THEN NoRet ELSE get(r, i)
    /\ lastOp' = [op |-> "switchLDmode", inst |-> i]
    /\ hist' = IF hist # << >> /\ hist[Len(hist)].inst = i
               THEN <<hist[Len(hist)], Observed(i)>>
               ELSE <<Observed(i)>>
    /\ UNCHANGED <<env, args>>

\* self.get() on instance i.
Get(i) ==
    /\ ~raised
    /\ objs[i].alive
    /\ ret' = get(Cur, i)
    /\ calls' = << >>
    /\ lastOp' = [op |-> "get", inst |-> i]
    /\ UNCHANGED <<env, args, cls, objs, curses, raised, hist>>

Next ==
    \/ \E i \in Instances : Construct(i)
    \/ \E i \in Instances : Switch(i)
    \/ \E i \in Instances : Get(i)

Spec == Init /\ [][Next]_vars

\* ---- properties --------------------------------------------------------
\* The semantic roles, as the specification's glossary lists them.
Roles ==
    {"DEFAULT", "UNDERLINE", "BOLD", "SORT", "OK", "MAX", "FILTER", "TITLE",
     "PROCESS", "PROCESS_SELECTED", "STATUS", "NICE", "CPU_TIME", "CAREFUL",
     "WARNING", "CRITICAL", "OK_LOG", "CAREFUL_LOG", "WARNING_LOG",
     "CRITICAL_LOG", "PASSWORD", "SELECTED", "INFO", "ERROR", "SEPARATOR"}

Alive(i) == objs[i].alive /\ ~raised
Table(i) == get(Cur, i)
Baseline == <<cls.forground, cls.background>>

\* C1 (as claimed): after two consecutive switchLDmode calls on a theme, its
\* mode, its baseline and the table get() returns are what they were before
\* the two calls, role for role.
C1_SwitchTwiceRestores ==
    Len(hist) = 2 =>
        /\ ~raised
        /\ hist[1].inst = hist[2].inst
        /\ Observed(hist[1].inst) = hist[1]

\* C2 (as claimed): a switchLDmode call made in mode dark returns in mode
\* light with baseline (black, white); one made in mode light returns in
\* mode dark with the terminal-default baseline.
C2_SwitchSetsModeAndBaseline ==
    (lastOp.op = "switchLDmode" /\ ~raised) =>
        LET before == hist[Len(hist)].mode
        IN  /\ before = "dark" =>
                (cls.mode = "light" /\ Baseline = <<COLOR_BLACK, COLOR_WHITE>>)
            /\ before = "light" =>
                (cls.mode = "dark" /\ Baseline = <<TERM_DEFAULT, TERM_DEFAULT>>)

\* C3: get() has a defined style for every role of the role set and no
\* other key, in every state after construction, for every terminal and
\* every flag; so has the table switchLDmode and get() return.
C3_TableTotal ==
    /\ \A i \in Instances : Alive(i) =>
          LET t == Table(i)
          IN  /\ DOMAIN t = Roles
              /\ \A r \in Roles : t[r] # Absent
    /\ (lastOp.op \in {"switchLDmode", "get"} /\ ~raised) => DOMAIN ret = Roles

\* C3 witness: a table returned by switchLDmode on a monochrome terminal.
C3_Witness ==
    /\ lastOp.op = "switchLDmode"
    /\ ~env.has_colors
    /\ ~raised
    /\ DOMAIN ret = Roles

\* C4 (as claimed): the mode right after construction is the initial mode
\* the caller supplied.
C4_InitialModeIsCallers ==
    (lastOp.op = "__init__" /\ ~raised) => cls.mode = args.mode

\* C4 (amended): right after construction the mode is 'light' and the
\* baseline is (terminal default, terminal default), whatever the caller
\* asked for.
C4_InitialModeFixed ==
    (lastOp.op = "__init__" /\ ~raised) =>
        /\ cls.mode = "light"
        /\ Baseline = <<TERM_DEFAULT, TERM_DEFAULT>>

\* C4 witness: a construction by a caller who wanted the other mode.
C4_Witness ==
    /\ lastOp.op = "__init__"
    /\ ~raised
    /\ args.mode = "dark"
    /\ cls.mode = "light"

\* The theme's bold: curses.A_BOLD, or nothing under disable_bold.
Bold == IF args.disable_bold THEN 0 ELSE A_BOLD

\* C5: on a colour terminal with at most 8 colours no role's style refers to
\* pair 9, 10 or 11, none of these pairs (nor colour 11) is ever defined, and
\* FILTER is the theme's bold with no colour pair.
C5_NoExtendedPairs ==
    (env.has_colors /\ env.COLORS <= 8) =>
        /\ \A n \in 9..11 : curses.pairs[n] = NoPair
        /\ curses.color11 = NoPair
        /\ \A i \in Instances : Alive(i) =>
              LET t == Table(i)
              IN  /\ \A r \in Roles : pair_number(t[r]) \notin 9..11
                  /\ t["FILTER"] = Bold
                  /\ pair_number(t["FILTER"]) = 0

\* C5 witness: an 8-colour terminal after a switchLDmode call.
C5_Witness ==
    /\ env.has_colors /\ env.COLORS = 8
    /\ lastOp.op = "switchLDmode" /\ ~raised
    /\ ~args.disable_bold
    /\ Table(lastOp.inst)["FILTER"] = A_BOLD

\* Scenario C's terminal and flags.
ScenarioC == env.has_colors /\ env.COLORS = 256 /\ ~args.disable_bg

\* C6 (as claimed): in scenario C get()['CRITICAL'] is pair 2 with bold and
\* pair 2 is (baseline foreground, red).
C6_CriticalIsPair2 ==
    ScenarioC =>
        \A i \in Instances : Alive(i) =>
            /\ Table(i)["CRITICAL"] = PyOr(color_pair(2), Bold)
            /\ curses.pairs[2] = <<cls.forground, COLOR_RED>>

\* C6 (amended): in scenario C it is get()['CRITICAL_LOG'] that is pair 2
\* with the theme's bold, pair 2 being (baseline foreground, red);
\* get()['CRITICAL'] is pair 6 with the theme's bold, pair 6 being
\* (red, baseline background).
C6_CriticalLogIsPair2 ==
    ScenarioC =>
        \A i \in Instances : Alive(i) =>
            /\ Table(i)["CRITICAL_LOG"] = PyOr(color_pair(2), Bold)
            /\ curses.pairs[2] = <<cls.forground, COLOR_RED>>
            /\ Table(i)["CRITICAL"] = PyOr(color_pair(6), Bold)
            /\ curses.pairs[6] = <<COLOR_RED, cls.background>>

\* C6 witness: scenario C with the black-on-white baseline.
C6_Witness ==
    /\ ScenarioC
    /\ lastOp.op = "switchLDmode" /\ ~raised
    /\ cls.forground = COLOR_BLACK
    /\ pair_number(Table(lastOp.inst)["CRITICAL_LOG"]) = 2

\* A role's resolved colour in a computation whose get() returns table: its
\* style and the definition of the pair the style refers to.
PairDef(st, n) == IF n \in 0..11 THEN st.curses.pairs[n] ELSE NoPair
Resolved(st, table, r) == <<table[r], PairDef(st, pair_number(table[r]))>>

\* The build of instance i's palette and styles from the present baseline
\* and terminal, with disable_bg as it is and the other way round.
SameBgBuild(i) == define_styles(Cur, i)
OtherBgBuild(i) ==
    define_styles([Cur EXCEPT !.objs[i].args.disable_bg = ~@], i)

BgRoles == {"OK", "WARNING", "CRITICAL", "OK_LOG", "WARNING_LOG", "CRITICAL_LOG"}

\* C7: building with disable_bg the other way round, from the same baseline
\* and terminal, changes the resolved colour of no role other than OK,
\* WARNING, CRITICAL and their _LOG variants.
C7_OnlyBgRolesChange ==
    \A i \in Instances : Alive(i) =>
        LET same == SameBgBuild(i)
            other == OtherBgBuild(i)
            sameTable == get(same, i)
            otherTable == get(other, i)
        IN  \A r \in Roles \ BgRoles :
                Resolved(same, sameTable, r) = Resolved(other, otherTable, r)

\* C7 witness: a colour terminal on which the two builds do differ, in
\* CRITICAL_LOG.
C7_Witness ==
    /\ env.has_colors
    /\ lastOp.op = "switchLDmode" /\ ~raised
    /\ LET i == lastOp.inst
           same == SameBgBuild(i)
           other == OtherBgBuild(i)
       IN  /\ same.curses = curses
           /\ same.objs = objs
           /\ Resolved(same, get(same, i), "CRITICAL_LOG")
                 # Resolved(other, get(other, i), "CRITICAL_LOG")

\* The terminal rejects colour 11 or pair 11.
Slot11Rejected ==
    env.has_colors /\ env.COLORS > 8 /\ (env.initColorFail \/ env.pair11Fail)

\* C8: when the terminal rejects colour 11 or pair 11, no call raises,
\* pair 11 stays undefined, and SEPARATOR is DEFAULT, that is pair 1, after
\* construction and after every switchLDmode.
C8_SeparatorFallsBack ==
    Slot11Rejected =>
        /\ ~raised
        /\ curses.pairs[11] = NoPair
        /\ \A i \in Instances : Alive(i) =>
              /\ pair_number(Table(i)["SEPARATOR"]) # 11
              /\ Table(i)["SEPARATOR"] = Table(i)["DEFAULT"]
              /\ Table(i)["DEFAULT"] = color_pair(1)

\* C8 witness: colour 11 was accepted, pair 11 rejected, and the theme was
\* switched.
C8_Witness ==
    /\ Slot11Rejected /\ ~env.initColorFail
    /\ lastOp.op = "switchLDmode" /\ ~raised
    /\ curses.color11 # NoPair
    /\ Table(lastOp.inst)["SEPARATOR"] = color_pair(1)

\* C9 (as claimed): on a monochrome terminal no role carries a colour;
\* DEFAULT, OK, OK_LOG and STATUS are plain, WARNING and WARNING_LOG are
\* underline, CRITICAL and CRITICAL_LOG reverse video.
C9_MonochromePlain ==
    ~env.has_colors =>
        \A i \in Instances : Alive(i) =>
            LET t == Table(i)
            IN  /\ \A r \in Roles : pair_number(t[r]) = 0
                /\ \A r \in {"DEFAULT", "OK", "OK_LOG", "STATUS"} : t[r] = 0
                /\ \A r \in {"WARNING", "WARNING_LOG"} : t[r] = A_UNDERLINE
                /\ \A r \in {"CRITICAL", "CRITICAL_LOG"} : t[r] = A_REVERSE

\* C10: a failing probe step never reaches the caller: construction (and
\* the rebuild that switchLDmode runs through __init__ or __white_init__)
\* completes with every style set, from the colour path on a colour
\* terminal and from the monochrome path otherwise.
C10_ProbeFailureCaught ==
    (env.probeFail # "none" /\ lastOp.op \in {"__init__", "switchLDmode"}) =>
        /\ ~raised
        /\ LET t == Table(lastOp.inst)
           IN  /\ \A r \in Roles : t[r] # Absent
               /\ env.has_colors =>
                    (/\ t["WARNING"] = PyOr(color_pair(8), Bold)
                     /\ curses.pairs[8] = <<COLOR_MAGENTA, cls.background>>)
               /\ ~env.has_colors =>
                    (/\ t["WARNING"] = A_UNDERLINE
                     /\ curses.pairs[8] = NoPair)

\* C10 witness: start_color failed, so that no later probe step ran, and
\* the constructor returned on a colour terminal.
C10_Witness ==
    /\ env.probeFail = "start_color"
    /\ lastOp.op = "__init__" /\ ~raised
    /\ env.has_colors
    /\ calls[1] = "start_color" /\ calls[2] = "init_pair"

\* The table of a theme built from nothing for instance i's arguments, the
\* present baseline and the terminal: the colour path on a colour terminal,
\* the monochrome path otherwise.
FreshTable(i) ==
    LET blank == [Cur EXCEPT !.objs[i] = NoObj]
    IN  get(define_styles(home_made_bold(blank, i, objs[i].args), i), i)

\* The last call that changed anything was switchLDmode on instance i.
SwitchedLast(i) ==
    /\ ~raised
    /\ hist # << >>
    /\ hist[Len(hist)].inst = i
    /\ lastOp.inst = i
    /\ lastOp.op \in {"switchLDmode", "get"}

\* C11: the table switchLDmode returns, the table get() returns afterwards
\* and the instance's styles are those of a fresh build from the new
\* baseline and the same terminal; nothing of the monochrome styles that
\* switchLDmode sets on its way remains on a colour terminal.
C11_SwitchReturnsFreshTable ==
    \A i \in Instances : SwitchedLast(i) =>
        LET fresh == FreshTable(i)
        IN  /\ ret = fresh
            /\ Table(i) = fresh
            /\ env.has_colors => fresh["DEFAULT"] = color_pair(1)
            /\ ~env.has_colors => fresh["DEFAULT"] = cls.background

\* C11 witness: a get() after a switch back to the terminal-default
\* baseline on a colour terminal.
C11_Witness ==
    /\ SwitchedLast(lastOp.inst)
    /\ lastOp.op = "get"
    /\ env.has_colors
    /\ cls.background = TERM_DEFAULT
    /\ ret["WARNING_LOG"] = PyOr(color_pair(5), Bold)

\* No call is in progress and a theme exists.
Quiescent == ~raised /\ \E i \in Instances : objs[i].alive

\* C12 (as claimed): whenever no switchLDmode call is in progress, on a
\* colour terminal and on a monochrome one, pair 1 is defined as the current
\* baseline.
C12_Pair1IsBaseline ==
    Quiescent => curses.pairs[1] = Baseline

\* C12 (amended): on a colour terminal, whenever no switchLDmode call is in
\* progress, pair 1 is defined as the current baseline.
C12_Pair1IsBaselineInColour ==
    (Quiescent /\ env.has_colors) => curses.pairs[1] = Baseline

\* C12 witness: a colour terminal switched to black on white and back.
C12_Witness ==
    /\ env.has_colors
    /\ Len(hist) = 2 /\ lastOp.op = "switchLDmode" /\ ~raised
    /\ curses.pairs[1] = <<TERM_DEFAULT, TERM_DEFAULT>>

\* The curses calls of the last call, from position k on, contain name.
CalledFrom(k, name) == \E n \in k..Len(calls) : calls[n] = name
Called(name) == CalledFrom(1, name)

\* C13 (as claimed): in every switchLDmode call, in both directions, when
\* the surface's background is set with pair 1, pair 1 is already defined as
\* the new baseline, with no colour of the previous one.
C13_Pair1NewAtRepaint ==
    (lastOp.op = "switchLDmode" /\ ~raised) =>
        /\ curses.surface.bkgd = color_pair(1)
        /\ curses.surface.bkgdPair = Baseline

\* C14 (as claimed): every switchLDmode call, in both directions, sets the
\* surface's background with pair 1, clears the surface and refreshes it
\* before it returns.
C14_SwitchRepaints ==
    (lastOp.op = "switchLDmode" /\ ~raised) =>
        /\ Called("bkgd") /\ curses.surface.bkgd = color_pair(1)
        /\ Called("clear") /\ curses.surface.cleared
        /\ Called("refresh") /\ curses.surface.refreshed

\* The terminal rejects cyan for pair 9 or yellow for pair 10.
ExtendedRejected == env.has_colors /\ env.COLORS > 8 /\ env.rejected # {}

C16_OnlySwitchChangesMode ==
    [][(cls.mode # "unset" /\ lastOp'.op # "switchLDmode") =>
          (/\ cls'.mode = cls.mode
           /\ cls'.forground = cls.forground
           /\ cls'.background = cls.background)]_vars

\* C17 (as claimed): no switchLDmode call runs a step of the capability
\* probe, and none redefines pair 0.
C17_SwitchDoesNotProbe ==
    (lastOp.op = "switchLDmode" /\ ~raised) =>
        \A k \in 1..Len(ProbeSteps) : ~Called(ProbeSteps[k])

====
